---- MODULE Spec2Model ----
(***************************************************************************)
(* AMATS: asset registry, network reconciliation, custody (issue/return)   *)
(* and the overdue-assignment notifier.                                    *)
(*                                                                         *)
(* Python None is modelled by a typed null per field: NoMac for a hardware *)
(* address, NoIp for a network address, NoTime for a timestamp, NoUser for *)
(* a user.                                                                 *)
(***************************************************************************)
EXTENDS Integers, Sequences, FiniteSets, TLC

\* ------------------------------------------------------------------ bounds
MaxAssets == 2
MaxPasses == 2
MaxAssignments == 2
MaxAudit == 4
MaxBeats == 2
MaxTicks == 1

\* ------------------------------------------------------- program constants
HostCap == 254
AddressBits == 32

\* --------------------------------------------------------------- null values
NoIp == 0
NoTime == -1
NoUser == 0
NoMac == [hw |-> 0, form |-> "absent"]

\* ------------------------------------------------------- hardware addresses
\* A hardware-address string: which interface it names and how its letters
\* are written.  "AA:..:01" and "aa:..:01" are two strings of the same hw.
MacUpper(hw) == [hw |-> hw, form |-> "upper"]
MacLower(hw) == [hw |-> hw, form |-> "lower"]

\* str.upper() on the token parsed from the neighbour table
upper(mac) == IF mac = NoMac THEN NoMac ELSE [mac EXCEPT !.form = "upper"]

\* Django's __iexact lookup: equality of the two strings ignoring letter case
iexact(stored, observed) ==
    /\ stored # NoMac
    /\ observed # NoMac
    /\ upper(stored) = upper(observed)

\* ------------------------------------------------------------------ assets
Statuses == {"AVAILABLE", "ASSIGNED", "MISSING", "MAINTENANCE", "RETIRED"}

DefaultLocation == [text |-> "Main Server Room", ip |-> NoIp]

\* the values the admin can type into the mac_address field of AssetForm
FormMacs == {NoMac, MacUpper(1), MacLower(1)}

NewAsset(mac, status) ==
    [mac_address |-> mac, status |-> status, location |-> DefaultLocation,
     ip_address |-> NoIp, network_last_seen |-> NoTime,
     assigned_to |-> NoUser, date_assigned |-> NoTime]

VARIABLES
    assets,         \* the Asset table: a sequence, the index is the primary key
    assignments,    \* the AssetAssignment table
    notifications,  \* the Notification table
    audit,          \* the AuditLog table, oldest first
    now,            \* timezone.now()
    network,        \* what each probed address answers, for the passes of a behaviour
    pass,           \* the last reconciliation pass: its inputs, locals and outcome
    prev,           \* the pass before it
    quiet,          \* no registry operation ran since the last pass
    response,       \* what the last issue or return request was answered with
    mail,           \* settings.EMAIL_HOST is set, and whether send_mail gets through
    outbox,         \* every call of send_mail, oldest first
    queue,          \* executions of check_overdue_assignments the worker was sent
    beats,          \* invocations of check_overdue_assignments scheduled so far
    job,            \* the last execution of check_overdue_assignments
    faults,         \* assignments with a broken related record
    probe,          \* the last scan run on its own: the subnet and what came of it
    run,            \* the execution of check_overdue_assignments in progress, step by step
    held,           \* the pass in progress, step by step: its loop and the asset it holds
    sweep           \* a scan step by step: the hosts left, and the calls made so far

overdueVars == <<mail, outbox, queue, beats, job, faults, run>>

vars == <<assets, assignments, notifications, audit, now, network, pass, prev, quiet,
          response, mail, outbox, queue, beats, job, faults, probe, run, held, sweep>>

\* ------------------------------------------------------------ the scanner
\* A subnet string, tokenised: the dotted octets before the "/" and the
\* prefix length after it (NoPrefix when the string has no "/").
NoPrefix == -1

Subnet(octets, prefix) == [octets |-> octets, prefix |-> prefix]

\* ipaddress.ip_network(subnet, strict=False) raises ValueError unless the
\* string is a dotted quad with an optional prefix length of 0..32
ValidSubnet(subnet) ==
    /\ Len(subnet.octets) = 4
    /\ \A i \in 1..4 : subnet.octets[i] \in 0..255
    /\ subnet.prefix = NoPrefix \/ subnet.prefix \in 0..AddressBits

PrefixLen(subnet) == IF subnet.prefix = NoPrefix THEN AddressBits ELSE subnet.prefix

AddressOf(subnet) ==
    ((subnet.octets[1] * 256 + subnet.octets[2]) * 256 + subnet.octets[3]) * 256
        + subnet.octets[4]

\* strict=False: the host bits of the address are masked off
\* (addresses are taken below 2^31, so a block of 31 or 32 host bits starts
\* at 0 and no power of two leaves the integers of the model checker)
NetworkAddress(subnet) ==
    LET bits == AddressBits - PrefixLen(subnet)
    IN  IF bits >= AddressBits - 1 THEN 0
        ELSE AddressOf(subnet) - (AddressOf(subnet) % (2 ^ bits))

\* a plausible slip: the enumeration starts at the network address
hosts_from_network(subnet) ==
    LET bits == AddressBits - PrefixLen(subnet)
        net == NetworkAddress(subnet)
        usable == IF bits = 0 THEN 1
                  ELSE IF bits = 1 THEN 2
                  ELSE IF bits >= 9 THEN HostCap + 1
                  ELSE 2 ^ bits - 2
        n == IF usable > HostCap THEN HostCap ELSE usable
    IN  [k \in 1..n |-> net + k - 1]

\* list(network.hosts())[:254]
hosts(subnet) ==
    LET bits == AddressBits - PrefixLen(subnet)
        net == NetworkAddress(subnet)
        first == IF bits <= 1 THEN net ELSE net + 1
        usable == IF bits = 0 THEN 1
                  ELSE IF bits = 1 THEN 2
                  ELSE IF bits >= 9 THEN HostCap + 1
                  ELSE 2 ^ bits - 2
        n == IF usable > HostCap THEN HostCap ELSE usable
    IN  [k \in 1..n |-> first + k - 1]

\* what the network answers for one address: the exit of ping and the
\* hardware-address token the neighbour table holds for it
PingOutcomes == {"ok", "timeout", "nonzero", "exception"}

\* the neighbour table: no entry for the address, or the commands fail
ArpError == [hw |-> 0, form |-> "error"]

\* an address the network does not hold is silent
Answer(env, ip) ==
    IF ip \in DOMAIN env THEN env[ip] ELSE [ping |-> "timeout", arp |-> NoMac]

\* returncode == 0; a timeout or any other exception of subprocess.run is False
ping_host(env, ip) == Answer(env, ip).ping = "ok"

\* the address found, upper-cased; None when nothing matches or on an exception
get_mac_address(env, ip) ==
    IF Answer(env, ip).arp = ArpError THEN NoMac ELSE upper(Answer(env, ip).arp)

NoResult == [ip_address |-> NoIp, mac_address |-> NoMac, is_alive |-> FALSE,
             asset_found |-> FALSE, asset_id |-> 0]

\* a plausible slip: a host is reported only when its address was resolved
scan_host_resolved(env, ip) ==
    IF ping_host(env, ip) /\ get_mac_address(env, ip) # NoMac
    THEN [ip_address |-> ip, mac_address |-> get_mac_address(env, ip),
          is_alive |-> TRUE, asset_found |-> FALSE, asset_id |-> 0]
    ELSE NoResult

\* NetworkScanner._scan_host
scan_host(env, ip) ==
    IF ping_host(env, ip)
    THEN [ip_address |-> ip, mac_address |-> get_mac_address(env, ip),
          is_alive |-> TRUE, asset_found |-> FALSE, asset_id |-> 0]
    ELSE NoResult

\* a plausible slip: the hardware address is looked up before the answer of
\* the ping is looked at
scan_host_calls_eager(env, ip) ==
    <<[op |-> "_ping_host", ip |-> ip], [op |-> "_get_mac_address", ip |-> ip]>>

\* the calls _scan_host makes for one address: _ping_host, and
\* _get_mac_address if is_alive
scan_host_calls(env, ip) ==
    <<[op |-> "_ping_host", ip |-> ip]>>
    \o (IF ping_host(env, ip) THEN <<[op |-> "_get_mac_address", ip |-> ip]>> ELSE <<>>)

\* for host in hosts: result = self._scan_host(ip); if result: results.append(result)
ScanLoop(env, hs) ==
    SelectSeq([k \in DOMAIN hs |-> scan_host(env, hs[k])], LAMBDA result : result # NoResult)

\* NetworkScanner.scan: every exception, the ValueError of a malformed
\* subnet included, is caught, printed and answered with the empty list
scan(subnet, env) ==
    IF ~ValidSubnet(subnet)
    THEN [results |-> <<>>, pinged |-> <<>>, printed |-> "Scan error", raised |-> "none"]
    ELSE [results |-> ScanLoop(env, hosts(subnet)),
          pinged |-> hosts(subnet), printed |-> "", raised |-> "none"]

\* --------------------------------------------------------- reconciliation
DoesNotExist == 0
MultipleObjectsReturned == -1

\* Asset.objects.get(mac_address__iexact=mac): the primary key of the one
\* asset found, DoesNotExist, or MultipleObjectsReturned
get_asset(table, mac) ==
    LET hits == {i \in DOMAIN table : iexact(table[i].mac_address, mac)}
    IN  IF hits = {} THEN DoesNotExist
        ELSE IF Cardinality(hits) = 1 THEN CHOOSE i \in hits : TRUE
        ELSE MultipleObjectsReturned

\* a plausible slip: an asset that was seen before counts as found again
was_seen_before(asset) == asset.network_last_seen # NoTime

\* a plausible slip: every status but ASSIGNED counts as missing
is_not_assigned(asset) == asset.status # "ASSIGNED"

\* a plausible slip: a retired asset counts as missing too
is_missing_or_retired(asset) == asset.status \in {"MISSING", "RETIRED"}

\* if asset.status == 'MISSING'
is_missing(asset) == asset.status = "MISSING"

\* The locals of a pass while it loops over the results; saved lists the
\* asset.save() calls in order and recovered the assets found missing
StartPass(table, results) ==
    [assets |-> table, results |-> results, matched |-> 0, missing_found |-> 0,
     found_count |-> 0, recovered |-> <<>>, saved |-> <<>>, raised |-> "none"]

\* scan_and_update_assets, the body of the loop for one result
scan_and_update_assets_result(st, i, t) ==
    LET result == st.results[i]
        id == get_asset(st.assets, result.mac_address)
    IN  IF result.mac_address = NoMac THEN st
        ELSE IF id = MultipleObjectsReturned
             THEN [st EXCEPT !.raised = "MultipleObjectsReturned"]
        ELSE IF id = DoesNotExist THEN st
        ELSE LET asset == st.assets[id]
                 missing == is_missing(asset)
                 saved == [asset EXCEPT
                     !.network_last_seen = t,
                     !.status = IF missing THEN "AVAILABLE" ELSE @,
                     !.location = IF missing
                                  THEN [text |-> "Detected on network: ",
                                        ip |-> result.ip_address]
                                  ELSE @,
                     !.ip_address = result.ip_address]
             IN  [st EXCEPT
                     !.assets[id] = saved,
                     !.missing_found = IF missing THEN @ + 1 ELSE @,
                     !.recovered = IF missing THEN Append(@, id) ELSE @,
                     !.saved = Append(@, [id |-> id, ip |-> result.ip_address]),
                     !.results[i] = [result EXCEPT !.asset_found = TRUE,
                                                   !.asset_id = id],
                     !.matched = @ + 1]

\* Command.handle of scan_network, the body of the loop for one result
handle_result(st, i, t) ==
    LET result == st.results[i]
        id == get_asset(st.assets, result.mac_address)
    IN  IF result.mac_address = NoMac THEN st
        ELSE IF id = MultipleObjectsReturned
             THEN [st EXCEPT !.raised = "MultipleObjectsReturned"]
        ELSE IF id = DoesNotExist THEN [st EXCEPT !.found_count = @ + 1]
        ELSE LET asset == st.assets[id]
                 missing == is_missing(asset)
                 saved == [asset EXCEPT
                     !.network_last_seen = t,
                     !.ip_address = result.ip_address,
                     !.status = IF missing THEN "AVAILABLE" ELSE @,
                     !.location = IF missing
                                  THEN [text |-> "Auto-detected: ",
                                        ip |-> result.ip_address]
                                  ELSE @]
             IN  [st EXCEPT
                     !.assets[id] = saved,
                     !.missing_found = IF missing THEN @ + 1 ELSE @,
                     !.recovered = IF missing THEN Append(@, id) ELSE @,
                     !.saved = Append(@, [id |-> id, ip |-> result.ip_address]),
                     !.matched = @ + 1]

\* network_scan_view, the body of the loop for one result: it keeps no
\* counters and leaves the location alone
network_scan_view_result(st, i, t) ==
    LET result == st.results[i]
        id == get_asset(st.assets, result.mac_address)
    IN  IF result.mac_address = NoMac THEN st
        ELSE IF id = MultipleObjectsReturned
             THEN [st EXCEPT !.raised = "MultipleObjectsReturned"]
        ELSE IF id = DoesNotExist THEN st
        ELSE LET asset == st.assets[id]
                 missing == is_missing(asset)
                 saved == [asset EXCEPT
                     !.network_last_seen = t,
                     !.ip_address = result.ip_address,
                     !.status = IF missing THEN "AVAILABLE" ELSE @]
             IN  [st EXCEPT
                     !.assets[id] = saved,
                     !.saved = Append(@, [id |-> id, ip |-> result.ip_address]),
                     !.recovered = IF missing THEN Append(@, id) ELSE @]

EntryPoints == {"scan_and_update_assets", "scan_network", "network_scan_view"}

ReconcileResult(entry, st, i, t) ==
    IF entry = "scan_and_update_assets" THEN scan_and_update_assets_result(st, i, t)
    ELSE IF entry = "scan_network" THEN handle_result(st, i, t)
    ELSE network_scan_view_result(st, i, t)

\* for result in results: ... ; an exception that is not caught ends the loop
RECURSIVE ReconcileLoop(_, _, _, _)
ReconcileLoop(entry, st, i, t) ==
    IF i > Len(st.results) \/ st.raised # "none" THEN st
    ELSE ReconcileLoop(entry, ReconcileResult(entry, st, i, t), i + 1, t)

\* no summary: the pass did not run, or ended with an exception
NoSummary == [k \in {} |-> 0]

\* What a pass reports when its loop is over: the dict scan_and_update_assets
\* returns, the "Scan complete" line of scan_network (its found_count of
\* unknown devices is counted and never reported), the message of the view.
Summary(entry, st) ==
    IF st.raised # "none" THEN NoSummary
    ELSE IF entry = "scan_and_update_assets"
         THEN ("scanned" :> Len(st.results)) @@ ("matched" :> st.matched)
              @@ ("missing_found" :> st.missing_found)
    ELSE IF entry = "scan_network"
         THEN ("hosts up" :> Len(st.results)) @@ ("assets matched" :> st.matched)
              @@ ("missing found" :> st.missing_found)
    ELSE ("devices found" :> Len(st.results))

\* ------------------------------------------------------------------ inputs
\* "10.0.0.1/30" (host bits set), "not-a-subnet", "10.0.0.0/33"
SubnetInputs ==
    {Subnet(<<10, 0, 0, 1>>, 30), Subnet(<<>>, NoPrefix), Subnet(<<10, 0, 0, 0>>, 33)}

ProbeAddrs ==
    UNION {{hosts(sn)[k] : k \in DOMAIN hosts(sn)} : sn \in {x \in SubnetInputs : ValidSubnet(x)}}

ArpTokens == {NoMac, ArpError, MacLower(1), MacLower(2)}

\* the networks a scan can meet; the neighbour table is only read for a
\* host that answered, so its token for a silent host is left absent
Envs ==
    {e \in [ProbeAddrs -> [ping : PingOutcomes, arp : ArpTokens]] :
        \A h \in ProbeAddrs : e[h].ping # "ok" => e[h].arp = NoMac}

\* ------------------------------------------------------------------- state
NoProbe == [n |-> 0, subnet |-> Subnet(<<>>, NoPrefix), pinged |-> <<>>, results |-> <<>>,
            printed |-> "", raised |-> "none"]

\* no scan has started
NoSweep ==
    [n |-> 0, active |-> FALSE, subnet |-> Subnet(<<>>, NoPrefix), hosts |-> <<>>, i |-> 0,
     calls |-> <<>>, results |-> <<>>, printed |-> ""]

\* no pass is in progress
NoHeld ==
    [n |-> 0, active |-> FALSE, results |-> <<>>, i |-> 0, fetched |-> FALSE, id |-> 0,
     asset |-> NewAsset(NoMac, "AVAILABLE"), raised |-> "none"]

NoPass ==
    [n |-> 0, entry |-> "none", valid |-> FALSE, pinged |-> <<>>,
     raw |-> <<>>, results |-> <<>>, printed |-> "", raised |-> "none",
     scanned |-> 0, matched |-> 0, missing_found |-> 0, found_count |-> 0,
     recovered |-> <<>>, saved |-> <<>>, pre |-> <<>>, at |-> NoTime,
     follows |-> FALSE, summary |-> NoSummary]

NoPrev == [raw |-> <<>>, recovered |-> <<>>, n |-> 0]

AuditEntry(user, action, model_name, object_id, description, arg) ==
    [user |-> user, action |-> action, model_name |-> model_name,
     object_id |-> object_id, description |-> description, arg |-> arg]

\* a plausible slip: update_or_create keyed on the object, which rewrites the
\* entry the object already has
AuditUpsert(log, entry) ==
    IF \E k \in DOMAIN log : log[k].object_id = entry.object_id
                             /\ log[k].model_name = entry.model_name
    THEN LET k == CHOOSE j \in DOMAIN log : log[j].object_id = entry.object_id
                                           /\ log[j].model_name = entry.model_name
         IN  [log EXCEPT ![k] = entry]
    ELSE Append(log, entry)

\* AuditLog.objects.create(...)
AuditAppend(log, entry) == Append(log, entry)

\* views.log_audit_action
log_audit_action(log, user, action, description, model_name, object_id, arg) ==
    AuditAppend(log, AuditEntry(user, action, model_name, object_id, description, arg))

Admin == 1
Tech == 2
Users == {Admin, Tech}

\* AssetIssueForm.date_due: left empty, a time already past, or the time of
\* the first run of the job
DueInputs == {NoTime, 0, 1}

NoResponse == [op |-> "none", code |-> 0]

\* ------------------------------------------------------- the overdue job
\* @shared_task(bind=True, max_retries=3, default_retry_delay=60)
max_retries == 3
default_retry_delay == 60

\* User.email: the admin has an address, the technician has none
Emails == (Admin :> "admin@amats") @@ (Tech :> "")

\* settings.EMAIL_HOST is '' unless the environment sets it; the mail server,
\* for a whole behaviour, takes every message or refuses every message
MailInputs == [EMAIL_HOST : BOOLEAN, up : BOOLEAN]
MailDefault == [EMAIL_HOST |-> FALSE, up |-> FALSE]

\* the request of one execution: self.request.retries, when it is due, and
\* the scheduled invocation it belongs to
Request(retries, eta, invocation) ==
    [retries |-> retries, eta |-> eta, invocation |-> invocation]

NoJob ==
    [n |-> 0, request |-> Request(0, NoTime, 0), at |-> NoTime, overdue |-> <<>>,
     failed |-> <<>>, raised |-> "none", overdue_count |-> 0,
     notifications_created |-> 0, email_notifications |-> 0,
     pre_notifications |-> 0, pre_audit |-> 0, pre_outbox |-> 0]

\* AssetAssignment.is_overdue at time t
is_overdue(assignment, t) ==
    IF assignment.date_due # NoTime /\ assignment.date_returned = NoTime
    THEN t > assignment.date_due
    ELSE FALSE

\* a plausible slip: an assignment due at this very moment is selected too
is_selected_when_due(assignment, t) ==
    /\ assignment.date_due # NoTime
    /\ assignment.date_due <= t
    /\ assignment.date_returned = NoTime

\* the filter of the job: date_due__lt=timezone.now(), date_returned__isnull=True
is_selected(assignment, t) ==
    /\ assignment.date_due # NoTime
    /\ assignment.date_due < t
    /\ assignment.date_returned = NoTime

\* the queryset, in the order of Meta.ordering = ['-date_out']: newest first
RECURSIVE overdue_from(_, _, _)
overdue_from(table, k, t) ==
    IF k = 0 THEN <<>>
    ELSE (IF is_selected(table[k], t) THEN <<k>> ELSE <<>>) \o overdue_from(table, k - 1, t)

overdue(table, t) == overdue_from(table, Len(table), t)

\* the text of the notification and of the mail
message(assignment) ==
    [asset |-> assignment.asset, assigned_to |-> assignment.assigned_to,
     date_due |-> assignment.date_due]

Notification(user, msg, link, level) ==
    [user |-> user, message |-> msg, link |-> link, level |-> level]

\* the locals of one execution and the tables it writes
StartJob(rows, log, pending, sent) ==
    [notifications |-> rows, audit |-> log, queue |-> pending, outbox |-> sent,
     notifications_created |-> 0, email_notifications |-> 0, failed |-> <<>>,
     raised |-> "none"]

\* self.retry(exc=exc) under a worker: past max_retries it raises exc itself,
\* otherwise it sends the task again with countdown default_retry_delay and
\* raises Retry
retry(st, request, t) ==
    IF request.retries + 1 > max_retries
    THEN [queue |-> st.queue, raises |-> "exc"]
    ELSE [queue |-> Append(st.queue, Request(request.retries + 1, t + default_retry_delay,
                                             request.invocation)),
          raises |-> "Retry"]

\* a plausible slip: the error ends the execution
on_error_abort(st, id, e) ==
    [st EXCEPT !.audit = AuditAppend(@, AuditEntry(NoUser, "EXPORT", "AssetAssignment", id,
                                                   "Unexpected error in overdue task", 0)),
               !.failed = Append(@, id),
               !.raised = e]

\* except Exception as e: the entry is written and the loop goes on
on_error(st, id, e) ==
    [st EXCEPT !.audit = AuditAppend(@, AuditEntry(NoUser, "EXPORT", "AssetAssignment", id,
                                                   "Unexpected error in overdue task", 0)),
               !.failed = Append(@, id)]

\* a plausible slip: only a holder who can be mailed is notified
notify_assigned_to_with_email(assignment) == Emails[assignment.assigned_to] # ""

\* if assignment.assigned_to:
notify_assigned_to(assignment) == assignment.assigned_to # NoUser

\* a plausible slip: only an assigning user who can be mailed is notified
notify_assigned_by_with_email(assignment) == Emails[assignment.assigned_by] # ""

\* if assignment.assigned_by:
notify_assigned_by(assignment) == assignment.assigned_by # NoUser

\* a plausible slip: an assignment that already has notifications gets no more
Notify_once(st, assignment, id) ==
    LET msg == message(assignment)
        seen == \E k \in DOMAIN st.notifications : st.notifications[k].link = id
        rows == IF seen THEN <<>>
                ELSE <<Notification(assignment.assigned_by, msg, id, "ALERT"),
                       Notification(assignment.assigned_to, msg, id, "WARNING")>>
        recipients == (IF Emails[assignment.assigned_by] # ""
                       THEN <<Emails[assignment.assigned_by]>> ELSE <<>>)
                      \o (IF Emails[assignment.assigned_to] # ""
                          THEN <<Emails[assignment.assigned_to]>> ELSE <<>>)
    IN  [st |-> [st EXCEPT !.notifications = @ \o rows,
                           !.notifications_created = @ + Len(rows)],
         recipients |-> recipients]

\* lines 30-51: the notifications and the recipients of the mail
Notify(st, assignment, id) ==
    LET msg == message(assignment)
        by == notify_assigned_by(assignment)
        to == notify_assigned_to(assignment)
        rows == (IF by THEN <<Notification(assignment.assigned_by, msg, id, "ALERT")>>
                 ELSE <<>>)
                \o (IF to THEN <<Notification(assignment.assigned_to, msg, id, "WARNING")>>
                    ELSE <<>>)
        recipients == (IF by /\ Emails[assignment.assigned_by] # ""
                       THEN <<Emails[assignment.assigned_by]>> ELSE <<>>)
                      \o (IF to /\ Emails[assignment.assigned_to] # ""
                          THEN <<Emails[assignment.assigned_to]>> ELSE <<>>)
    IN  [st |-> [st EXCEPT !.notifications = @ \o rows,
                           !.notifications_created = @ + Len(rows)],
         recipients |-> recipients]

\* lines 70-77
Created(st, id) ==
    [st EXCEPT !.audit = AuditAppend(@, AuditEntry(NoUser, "EXPORT", "AssetAssignment", id,
                                        "Created notifications for overdue assignment",
                                        st.notifications_created))]

\* the body of the loop for one assignment
process(st, id, assignment, request, t, smtp, broken) ==
    IF id \in broken
    THEN on_error(st, id, "DoesNotExist")
    ELSE LET n == Notify(st, assignment, id)
             s1 == n.st
         IN  IF n.recipients # <<>> /\ smtp.EMAIL_HOST
             THEN LET s2 == [s1 EXCEPT !.outbox = Append(@,
                                  [assignment |-> id, to |-> n.recipients, at |-> t,
                                   invocation |-> request.invocation,
                                   retries |-> request.retries, ok |-> smtp.up])]
                  IN  IF smtp.up
                      THEN Created([s2 EXCEPT !.email_notifications = @ + 1], id)
                      ELSE LET r == retry(s2, request, t)
                               s3 == [s2 EXCEPT !.queue = r.queue]
                           IN  IF r.raises = "MaxRetriesExceededError"
                               THEN Created([s3 EXCEPT !.audit = AuditAppend(@,
                                        AuditEntry(NoUser, "EXPORT", "AssetAssignment", id,
                                            "Failed to send overdue email after retries", 0))],
                                        id)
                               ELSE on_error(s3, id, r.raises)
             ELSE Created(s1, id)

RECURSIVE OverdueLoop(_, _, _, _, _, _, _, _)
OverdueLoop(st, table, ids, i, request, t, smtp, broken) ==
    IF i > Len(ids) \/ st.raised # "none" THEN st
    ELSE OverdueLoop(process(st, ids[i], table[ids[i]], request, t, smtp, broken),
                     table, ids, i + 1, request, t, smtp, broken)

\* no execution is in progress
NoRun ==
    [active |-> FALSE, request |-> Request(0, NoTime, 0), at |-> NoTime, table |-> <<>>,
     overdue |-> <<>>, i |-> 0, notifications_created |-> 0, email_notifications |-> 0,
     failed |-> <<>>, raised |-> "none", pre_notifications |-> 0, pre_audit |-> 0,
     pre_outbox |-> 0]

\* a plausible slip: count() asks the database again
count_by_query(cache, table, t) == Len(overdue(table, t))

\* overdue.count() after the loop: the queryset was iterated, so this is the
\* length of its result cache
count(cache, table, t) == Len(cache)

Init ==
    /\ assets = <<>>
    /\ assignments = <<>>
    /\ notifications = <<>>
    /\ audit = <<>>
    /\ now = 1
    /\ network \in Envs
    /\ pass = NoPass
    /\ prev = NoPrev
    /\ quiet = FALSE
    /\ response = NoResponse
    /\ mail \in MailInputs
    /\ outbox = <<>>
    /\ queue = <<>>
    /\ beats = 0
    /\ job = NoJob
    /\ faults \in SUBSET (1..MaxAssignments)
    /\ probe = NoProbe
    /\ run = NoRun
    /\ held = NoHeld
    /\ sweep = NoSweep

\* the mail settings of a fresh checkout, and no broken record
\* the networks where a host answers or times out and the neighbour table
\* can be read
PlainNetworks ==
    {e \in Envs : \A h \in DOMAIN e : e[h].ping \in {"ok", "timeout"} /\ e[h].arp # ArpError}

InitRecon ==
    /\ Init
    /\ mail = MailDefault
    /\ faults = {}
    /\ network \in PlainNetworks

\* AssetCreateView with AssetForm: the admin types the hardware address and
\* picks the status; nothing checks the address against the other assets
AssetCreateView(mac, status) ==
    /\ Len(assets) < MaxAssets
    /\ assets' = Append(assets, NewAsset(mac, status))
    /\ audit' = log_audit_action(audit, Admin, "CREATE", "Created asset", "Asset",
                                 Len(assets) + 1, 0)
    /\ quiet' = FALSE
    /\ UNCHANGED <<assignments, notifications, now, network, pass, prev, response>>
    /\ UNCHANGED <<overdueVars, held, sweep>>
    /\ UNCHANGED probe

\* what a pass leaves behind: the registry as saved, and the record of the call
PassRecord(entry, subnet, sc, st) ==
    [n |-> pass.n + 1, entry |-> entry, valid |-> ValidSubnet(subnet),
     pinged |-> sc.pinged,
     raw |-> sc.results, results |-> st.results, printed |-> sc.printed,
     raised |-> IF sc.raised # "none" THEN sc.raised ELSE st.raised, scanned |-> Len(st.results), matched |-> st.matched,
     missing_found |-> st.missing_found, found_count |-> st.found_count,
     recovered |-> st.recovered, saved |-> st.saved, pre |-> assets, at |-> now,
     follows |-> quiet, summary |-> Summary(entry, st)]

\* scan_and_update_assets(subnet)
scan_and_update_assets(subnet) ==
    /\ pass.n < MaxPasses
    /\ LET sc == scan(subnet, network)
           st == ReconcileLoop("scan_and_update_assets", StartPass(assets, sc.results), 1, now)
       IN  /\ assets' = st.assets
           /\ pass' = PassRecord("scan_and_update_assets", subnet, sc, st)
    /\ prev' = [raw |-> pass.raw, recovered |-> pass.recovered, n |-> pass.n]
    /\ quiet' = TRUE
    /\ now' = now + 1
    /\ UNCHANGED <<assignments, notifications, audit, network, response>>
    /\ UNCHANGED <<overdueVars, held, sweep>>
    /\ UNCHANGED probe

\* python manage.py scan_network --subnet ...
scan_network(subnet) ==
    /\ pass.n < MaxPasses
    /\ LET sc == scan(subnet, network)
           st == ReconcileLoop("scan_network", StartPass(assets, sc.results), 1, now)
       IN  /\ assets' = st.assets
           /\ pass' = PassRecord("scan_network", subnet, sc, st)
    /\ prev' = [raw |-> pass.raw, recovered |-> pass.recovered, n |-> pass.n]
    /\ quiet' = TRUE
    /\ now' = now + 1
    /\ UNCHANGED <<assignments, notifications, audit, network, response>>
    /\ UNCHANGED <<overdueVars, held, sweep>>
    /\ UNCHANGED probe

\* network_scan_view, POST by an admin: NetworkScanForm.clean_subnet turns a
\* malformed subnet into a form error and no scan runs; the SCAN audit entry
\* is written after the loop, so not when the loop raised
network_scan_view(subnet) ==
    \/ /\ ~ValidSubnet(subnet)
       /\ UNCHANGED vars
    \/ /\ ValidSubnet(subnet)
       /\ pass.n < MaxPasses
       /\ LET sc == scan(subnet, network)
              st == ReconcileLoop("network_scan_view", StartPass(assets, sc.results), 1, now)
          IN  /\ assets' = st.assets
              /\ pass' = PassRecord("network_scan_view", subnet, sc, st)
              /\ audit' = IF st.raised = "none"
                          THEN log_audit_action(audit, Admin, "SCAN",
                                   "Network scan performed", "", 0, Len(sc.results))
                          ELSE audit
       /\ prev' = [raw |-> pass.raw, recovered |-> pass.recovered, n |-> pass.n]
       /\ quiet' = TRUE
       /\ now' = now + 1
       /\ UNCHANGED <<assignments, notifications, network, response>>
       /\ UNCHANGED <<overdueVars, held, sweep>>
    /\ UNCHANGED probe

\* python scanner.py <subnet>: NetworkScanner(subnet).scan() on its own
scanner_main(subnet) ==
    /\ LET sc == scan(subnet, network)
       IN  probe' = [n |-> 1, subnet |-> subnet, pinged |-> sc.pinged,
                     results |-> sc.results, printed |-> sc.printed, raised |-> sc.raised]
    /\ UNCHANGED <<assets, assignments, notifications, audit, now, network, pass, prev,
                   quiet, response>>
    /\ UNCHANGED <<overdueVars, held, sweep>>

\* scan_and_update_assets step by step, for what happens between the moment
\* an asset is read and the moment it is saved. The scan, before the loop
scan_and_update_assets_scan(subnet) ==
    /\ ~held.active
    /\ held.n < MaxPasses
    /\ held' = [NoHeld EXCEPT !.n = held.n + 1, !.active = TRUE,
                              !.results = scan(subnet, network).results, !.i = 1]
    /\ UNCHANGED <<assets, assignments, notifications, audit, now, network, pass, prev,
                   quiet, response, probe, sweep>>
    /\ UNCHANGED overdueVars

\* Asset.objects.get(mac_address__iexact=...) for the next result: the
\* instance is a copy of the row as it is now
scan_and_update_assets_get ==
    /\ held.active
    /\ ~held.fetched
    /\ held.i <= Len(held.results)
    /\ LET mac == held.results[held.i].mac_address
           id == get_asset(assets, mac)
       IN  held' = IF mac = NoMac \/ id = DoesNotExist THEN [held EXCEPT !.i = @ + 1]
                   ELSE IF id = MultipleObjectsReturned
                        THEN [held EXCEPT !.active = FALSE,
                                          !.raised = "MultipleObjectsReturned"]
                   ELSE [held EXCEPT !.fetched = TRUE, !.id = id, !.asset = assets[id]]
    /\ UNCHANGED <<assets, assignments, notifications, audit, now, network, pass, prev,
                   quiet, response, probe, sweep>>
    /\ UNCHANGED overdueVars

\* the assignments to the instance and asset.save(), which writes every
\* field of the instance over the row
scan_and_update_assets_save ==
    /\ held.active
    /\ held.fetched
    /\ LET stale == [assets EXCEPT ![held.id] = held.asset]
           st == scan_and_update_assets_result(StartPass(stale, held.results), held.i, now)
       IN  assets' = [assets EXCEPT ![held.id] = st.assets[held.id]]
    /\ held' = [held EXCEPT !.fetched = FALSE, !.i = @ + 1]
    /\ UNCHANGED <<assignments, notifications, audit, now, network, pass, prev,
                   quiet, response, probe, sweep>>
    /\ UNCHANGED overdueVars

\* the loop is over
scan_and_update_assets_return ==
    /\ held.active
    /\ ~held.fetched
    /\ held.i > Len(held.results)
    /\ held' = [held EXCEPT !.active = FALSE]
    /\ UNCHANGED <<assets, assignments, notifications, audit, now, network, pass, prev,
                   quiet, response, probe, sweep>>
    /\ UNCHANGED overdueVars

\* NetworkScanner.scan step by step. The hosts are enumerated; a malformed
\* subnet raises here, which is printed, and the scan returns
scan_hosts(subnet) ==
    /\ ~sweep.active
    /\ sweep.n = 0
    /\ sweep' = IF ValidSubnet(subnet)
                THEN [NoSweep EXCEPT !.active = TRUE, !.subnet = subnet,
                                     !.hosts = hosts(subnet), !.i = 1]
                ELSE [NoSweep EXCEPT !.n = 1, !.subnet = subnet, !.printed = "Scan error"]
    /\ UNCHANGED <<assets, assignments, notifications, audit, now, network, pass, prev,
                   quiet, response, probe, held>>
    /\ UNCHANGED overdueVars

\* one turn of the loop: _scan_host for the next host
scan_scan_host ==
    /\ sweep.active
    /\ sweep.i <= Len(sweep.hosts)
    /\ LET ip == sweep.hosts[sweep.i]
           result == scan_host(network, ip)
       IN  sweep' = [sweep EXCEPT !.i = @ + 1,
                                  !.calls = @ \o scan_host_calls(network, ip),
                                  !.results = IF result # NoResult THEN Append(@, result)
                                              ELSE @]
    /\ UNCHANGED <<assets, assignments, notifications, audit, now, network, pass, prev,
                   quiet, response, probe, held>>
    /\ UNCHANGED overdueVars

\* return results
scan_return ==
    /\ sweep.active
    /\ sweep.i > Len(sweep.hosts)
    /\ sweep' = [sweep EXCEPT !.active = FALSE, !.n = 1]
    /\ UNCHANGED <<assets, assignments, notifications, audit, now, network, pass, prev,
                   quiet, response, probe, held>>
    /\ UNCHANGED overdueVars

\* AssetUpdateView with AssetForm: any logged-in user may save the asset
\* with another status
AssetUpdateView(pk, user, status) ==
    /\ pk \in DOMAIN assets
    /\ assets' = [assets EXCEPT ![pk].status = status]
    /\ audit' = log_audit_action(audit, user, "UPDATE", "Updated asset", "Asset", pk, 0)
    /\ quiet' = FALSE
    /\ UNCHANGED <<assignments, notifications, now, network, pass, prev, response>>
    /\ UNCHANGED <<overdueVars, held, sweep>>
    /\ UNCHANGED probe

\* ----------------------------------------------------------------- custody
\* request.META.get('REMOTE_ADDR') of a browser on the same machine: 127.0.0.1
REMOTE_ADDR == 2130706433

\* checkout_ip is written by the web view only
NewAssignment(asset, to, by, due, t, checkout_ip) ==
    [asset |-> asset, assigned_to |-> to, assigned_by |-> by, date_out |-> t,
     date_due |-> due, date_returned |-> NoTime, checkout_ip |-> checkout_ip]

\* a plausible slip: the date of return is not looked at
IsOpen_always(assignment) == TRUE

\* date_returned__isnull=True in the view, `if assignment.date_returned` in the API
IsOpen(assignment) == assignment.date_returned = NoTime

OpenAssignments(asset) ==
    {k \in DOMAIN assignments : assignments[k].asset = asset /\ IsOpen(assignments[k])}

\* a plausible slip: the asset is issued whatever its status
issue_allowed_always(asset) == TRUE

\* views.issue_asset: if asset.status != 'AVAILABLE' the request is turned away
issue_allowed(asset) == asset.status = "AVAILABLE"

\* views.issue_asset, POST of a valid AssetIssueForm by a logged-in user
issue_asset(pk, user, to, due) ==
    /\ pk \in DOMAIN assets
    /\ \/ /\ ~issue_allowed(assets[pk])
          /\ response' = [op |-> "issue_asset", code |-> 302]
          /\ UNCHANGED <<assets, assignments, audit, quiet>>
       \/ /\ issue_allowed(assets[pk])
          /\ Len(assignments) < MaxAssignments
          /\ assignments' = Append(assignments,
                                   NewAssignment(pk, to, user, due, now, REMOTE_ADDR))
          /\ assets' = [assets EXCEPT ![pk].status = "ASSIGNED",
                                      ![pk].assigned_to = to,
                                      ![pk].date_assigned = now]
          /\ audit' = log_audit_action(audit, user, "ISSUE", "Issued", "AssetAssignment",
                                       Len(assignments) + 1, 0)
          /\ response' = [op |-> "issue_asset", code |-> 200]
          /\ quiet' = FALSE
    /\ UNCHANGED <<notifications, now, network, pass, prev>>
    /\ UNCHANGED <<overdueVars, held, sweep>>
    /\ UNCHANGED probe

\* AssetAssignmentWriteSerializer.create, POST /api/assignments/ by an
\* authenticated user: the status of the asset is not looked at
api_create_assignment(pk, user, to, due) ==
    /\ pk \in DOMAIN assets
    /\ Len(assignments) < MaxAssignments
    /\ assignments' = Append(assignments, NewAssignment(pk, to, user, due, now, NoIp))
    /\ assets' = [assets EXCEPT ![pk].status = "ASSIGNED",
                                ![pk].assigned_to = to,
                                ![pk].date_assigned = now]
    /\ audit' = AuditAppend(audit, AuditEntry(user, "ISSUE", "AssetAssignment",
                                              Len(assignments) + 1, "Issued", 0))
    /\ response' = [op |-> "api_create_assignment", code |-> 201]
    /\ quiet' = FALSE
    /\ UNCHANGED <<notifications, now, network, pass, prev>>
    /\ UNCHANGED <<overdueVars, held, sweep>>
    /\ UNCHANGED probe

\* a plausible slip: the holder stays on the asset
Returned_with_holder(id, t) ==
    /\ assignments' = [assignments EXCEPT ![id].date_returned = t]
    /\ assets' = [assets EXCEPT ![assignments[id].asset].status = "AVAILABLE",
                                ![assignments[id].asset].date_assigned = NoTime]

\* what a return writes: the assignment is closed and the asset is AVAILABLE
\* again, whatever its status was
Returned(id, t) ==
    /\ assignments' = [assignments EXCEPT ![id].date_returned = t]
    /\ assets' = [assets EXCEPT ![assignments[id].asset].status = "AVAILABLE",
                                ![assignments[id].asset].assigned_to = NoUser,
                                ![assignments[id].asset].date_assigned = NoTime]

\* views.return_asset, POST of a valid AssetReturnForm by a logged-in user
return_asset(assignment_id, user) ==
    /\ \/ /\ ~(assignment_id \in DOMAIN assignments /\ IsOpen(assignments[assignment_id]))
          /\ response' = [op |-> "return_asset", code |-> 302]
          /\ UNCHANGED <<assets, assignments, audit, quiet>>
       \/ /\ assignment_id \in DOMAIN assignments
          /\ IsOpen(assignments[assignment_id])
          /\ Returned(assignment_id, now)
          /\ audit' = log_audit_action(audit, user, "RETURN", "Returned", "AssetAssignment",
                                       assignment_id, 0)
          /\ response' = [op |-> "return_asset", code |-> 200]
          /\ quiet' = FALSE
    /\ UNCHANGED <<notifications, now, network, pass, prev>>
    /\ UNCHANGED <<overdueVars, held, sweep>>
    /\ UNCHANGED probe

\* AssetAssignmentViewSet.return_asset, POST /api/assignments/<pk>/return_asset/
api_return_asset(pk, user) ==
    /\ pk \in DOMAIN assignments
    /\ \/ /\ ~IsOpen(assignments[pk])
          /\ response' = [op |-> "api_return_asset", code |-> 400]
          /\ UNCHANGED <<assets, assignments, audit, quiet>>
       \/ /\ IsOpen(assignments[pk])
          /\ Returned(pk, now)
          /\ audit' = AuditAppend(audit, AuditEntry(user, "RETURN", "AssetAssignment", pk,
                                                    "Returned by API", 0))
          /\ response' = [op |-> "api_return_asset", code |-> 200]
          /\ quiet' = FALSE
    /\ UNCHANGED <<notifications, now, network, pass, prev>>
    /\ UNCHANGED <<overdueVars, held, sweep>>
    /\ UNCHANGED probe

\* ------------------------------------------------- the overdue job: steps
\* celery beat sends the task (CELERY_BEAT_SCHEDULE)
beat ==
    /\ beats < MaxBeats
    /\ beats' = beats + 1
    /\ queue' = Append(queue, Request(0, now, beats + 1))
    /\ UNCHANGED <<assets, assignments, notifications, audit, now, network, pass, prev,
                   quiet, response, mail, outbox, job, faults, probe, run, held, sweep>>

\* the worker runs the oldest waiting execution once it is due
check_overdue_assignments ==
    /\ queue # <<>>
    /\ Head(queue).eta <= now
    /\ LET request == Head(queue)
           rest == Tail(queue)
           ids == overdue(assignments, now)
           st == OverdueLoop(StartJob(notifications, audit, rest, outbox), assignments, ids,
                             1, request, now, mail, faults)
       IN  /\ notifications' = st.notifications
           /\ audit' = st.audit
           /\ queue' = st.queue
           /\ outbox' = st.outbox
           /\ job' = [n |-> job.n + 1, request |-> request, at |-> now, overdue |-> ids,
                      failed |-> st.failed, raised |-> st.raised,
                      overdue_count |-> Len(ids),
                      notifications_created |-> st.notifications_created,
                      email_notifications |-> st.email_notifications,
                      pre_notifications |-> Len(notifications),
                      pre_audit |-> Len(audit), pre_outbox |-> Len(outbox)]
    /\ UNCHANGED <<assets, assignments, now, network, pass, prev, quiet, response, mail,
                   beats, faults, probe, run, held, sweep>>

\* The same execution step by step, for what happens while it is in progress.
\* The loop evaluates the queryset: the rows are read once
check_overdue_assignments_query ==
    /\ ~run.active
    /\ queue # <<>>
    /\ Head(queue).eta <= now
    /\ run' = [NoRun EXCEPT !.active = TRUE, !.request = Head(queue), !.at = now,
                            !.table = assignments, !.overdue = overdue(assignments, now),
                            !.i = 1, !.pre_notifications = Len(notifications),
                            !.pre_audit = Len(audit), !.pre_outbox = Len(outbox)]
    /\ queue' = Tail(queue)
    /\ UNCHANGED <<assets, assignments, notifications, audit, now, network, pass, prev,
                   quiet, response, mail, outbox, beats, job, faults, probe, held, sweep>>

\* one turn of the loop, on the row as it was read
check_overdue_assignments_body ==
    /\ run.active
    /\ run.i <= Len(run.overdue)
    /\ run.raised = "none"
    /\ LET id == run.overdue[run.i]
           st0 == [StartJob(notifications, audit, queue, outbox) EXCEPT
                      !.notifications_created = run.notifications_created,
                      !.email_notifications = run.email_notifications,
                      !.failed = run.failed]
           st == process(st0, id, run.table[id], run.request, now, mail, faults)
       IN  /\ notifications' = st.notifications
           /\ audit' = st.audit
           /\ queue' = st.queue
           /\ outbox' = st.outbox
           /\ run' = [run EXCEPT !.i = @ + 1,
                                 !.notifications_created = st.notifications_created,
                                 !.email_notifications = st.email_notifications,
                                 !.failed = st.failed, !.raised = st.raised]
    /\ UNCHANGED <<assets, assignments, now, network, pass, prev, quiet, response, mail,
                   beats, job, faults, probe, held, sweep>>

\* the return statement
check_overdue_assignments_return ==
    /\ run.active
    /\ run.i > Len(run.overdue) \/ run.raised # "none"
    /\ job' = [n |-> job.n + 1, request |-> run.request, at |-> run.at,
               overdue |-> run.overdue, failed |-> run.failed, raised |-> run.raised,
               overdue_count |-> count(run.overdue, assignments, now),
               notifications_created |-> run.notifications_created,
               email_notifications |-> run.email_notifications,
               pre_notifications |-> run.pre_notifications,
               pre_audit |-> run.pre_audit, pre_outbox |-> run.pre_outbox]
    /\ run' = NoRun
    /\ UNCHANGED <<assets, assignments, notifications, audit, now, network, pass, prev,
                   quiet, response, mail, outbox, queue, beats, faults, probe, held, sweep>>

\* time passes while the oldest execution waits for its countdown
Tick ==
    /\ queue # <<>>
    /\ Head(queue).eta > now
    /\ now' = now + default_retry_delay
    /\ UNCHANGED <<assets, assignments, notifications, audit, network, pass, prev, quiet,
                   response, mail, outbox, queue, beats, job, faults, probe, run, held, sweep>>

\* The registry is filled first and reconciled afterwards.
NextRecon ==
    \/ /\ pass.n = 0
       /\ \E mac \in FormMacs, status \in Statuses : AssetCreateView(mac, status)
    \/ \E subnet \in SubnetInputs : scan_and_update_assets(subnet)
    \/ \E subnet \in SubnetInputs : scan_network(subnet)
    \/ \E subnet \in SubnetInputs : network_scan_view(subnet)

SpecRecon == InitRecon /\ [][NextRecon]_vars

\* ------------------------------------------------- reconciliation: claims
Times(seq, x) == Cardinality({k \in DOMAIN seq : seq[k] = x})

\* the results of the pass whose hardware address equals the asset's,
\* ignoring letter case
MatchingResults(a) ==
    {k \in DOMAIN pass.raw : iexact(pass.pre[a].mac_address, pass.raw[k].mac_address)}

CountingPass == pass.entry \in {"scan_and_update_assets", "scan_network"}

\* C1: after a pass of scan_and_update_assets or scan_network, every asset that
\* was MISSING and whose hardware address is among the results is AVAILABLE,
\* its location is a marker holding an address it was observed at, and the
\* recovered counter went up exactly once for it.
C1_MissingIsRecoveredOnce ==
    (CountingPass /\ quiet) =>
        \A a \in DOMAIN pass.pre :
            (pass.pre[a].status = "MISSING" /\ MatchingResults(a) # {}) =>
                /\ assets[a].status = "AVAILABLE"
                /\ assets[a].location.text \in {"Detected on network: ", "Auto-detected: "}
                /\ assets[a].location.ip \in {pass.raw[k].ip_address : k \in MatchingResults(a)}
                /\ Times(pass.recovered, a) = 1
                /\ pass.missing_found = Len(pass.recovered)

\* C1 where every lookup of the pass found at most one asset
C1_WhenLookupsUnambiguous ==
    pass.raised = "none" => C1_MissingIsRecoveredOnce

C1_Reached ==
    /\ CountingPass
    /\ \E a \in DOMAIN pass.pre :
        /\ pass.pre[a].status = "MISSING"
        /\ Cardinality(MatchingResults(a)) = 2
        /\ assets[a].status = "AVAILABLE"

\* the network address of the last save of asset a in the pass
LastSavedIp(a) ==
    LET ks == {k \in DOMAIN pass.saved : pass.saved[k].id = a}
        last == CHOOSE k \in ks : \A j \in ks : j <= k
    IN  pass.saved[last].ip

C3_MalformedSubnetIsAnError ==
    (CountingPass /\ ~pass.valid) =>
        /\ pass.raised = "InvalidSubnet"
        /\ pass.pinged = <<>>

\* what does hold of such a call: it pings nothing and returns an empty scan
C3_MalformedSubnetScansNothing ==
    (CountingPass /\ ~pass.valid) =>
        /\ pass.pinged = <<>>
        /\ pass.raw = <<>>
        /\ pass.raised = "none"
        /\ assets = pass.pre

\* C10: when a pass directly follows another pass and has the same scan
\* results, it counts no asset as recovered: its counter is 0, and no asset
\* recovered by the first pass, and none AVAILABLE after it, is recovered again.
C10_SecondPassRecoversNothing ==
    (pass.n >= 2 /\ pass.follows /\ pass.raw = prev.raw) =>
        /\ pass.missing_found = 0
        /\ \A a \in DOMAIN pass.pre :
            (pass.pre[a].status = "AVAILABLE" \/ Times(prev.recovered, a) > 0) =>
                Times(pass.recovered, a) = 0

C10_Reached ==
    /\ pass.n >= 2
    /\ pass.follows
    /\ pass.raw = prev.raw
    /\ Len(prev.recovered) > 0
    /\ pass.matched > 0

\* C11: when a pass directly follows another pass and has the same scan
\* results, it leaves the status, the location and the ip_address of every
\* asset as the first pass left them, and the registry has the same assets.
C11_SecondPassChangesNoRegistryField ==
    (pass.n >= 2 /\ pass.follows /\ pass.raw = prev.raw) =>
        /\ Len(assets) = Len(pass.pre)
        /\ \A a \in DOMAIN pass.pre :
            /\ assets[a].status = pass.pre[a].status
            /\ assets[a].location = pass.pre[a].location
            /\ assets[a].ip_address = pass.pre[a].ip_address
            /\ assets[a].mac_address = pass.pre[a].mac_address

C11_Reached ==
    /\ pass.n >= 2
    /\ pass.follows
    /\ pass.raw = prev.raw
    /\ Len(prev.recovered) > 0
    /\ \E k \in DOMAIN pass.saved :
        /\ assets[pass.saved[k].id].network_last_seen = pass.at
        /\ assets[pass.saved[k].id].location # DefaultLocation

\* the results of the pass whose hardware address matches no asset
UnmatchedResults ==
    {k \in DOMAIN pass.raw :
        /\ pass.raw[k].mac_address # NoMac
        /\ get_asset(pass.pre, pass.raw[k].mac_address) = DoesNotExist}

\* C12: the summary of a pass has an unmatched count, which is the number of
\* results whose hardware address matches no asset, and when no result of the
\* pass matches an asset the registry is as it was before the pass.
C12_UnmatchedIsCountedAndChangesNothing ==
    (pass.n > 0 /\ quiet /\ pass.raised = "none" /\ UnmatchedResults # {}) =>
        /\ "unmatched" \in DOMAIN pass.summary
        /\ pass.summary["unmatched"] = Cardinality(UnmatchedResults)
        /\ pass.saved = <<>> => assets = pass.pre

\* what does hold of such results: they create no asset and change none
C12_UnmatchedResultChangesNothing ==
    (pass.n > 0 /\ quiet) =>
        /\ Len(assets) = Len(pass.pre)
        /\ \A a \in DOMAIN pass.pre :
            (\A k \in DOMAIN pass.saved : pass.saved[k].id # a) => assets[a] = pass.pre[a]

\* C19: every pass produces a summary that counts the responding hosts, the
\* matched assets, the recovered assets and the unmatched hosts; unmatched is
\* the number of results whose hardware address matches no asset, and
\* responding = matched + unmatched + results without a hardware address.
C19_SummaryHasFourCounts ==
    pass.n > 0 =>
        /\ "unmatched" \in DOMAIN pass.summary
        /\ pass.summary["unmatched"] = Cardinality(UnmatchedResults)
        /\ \E responding, matched, recovered \in DOMAIN pass.summary \ {"unmatched"} :
            /\ Cardinality({responding, matched, recovered}) = 3
            /\ pass.summary[responding] = Len(pass.raw)
            /\ pass.summary[recovered] = Len(pass.recovered)
            /\ pass.summary[responding] =
                 pass.summary[matched] + pass.summary["unmatched"]
                 + Cardinality({k \in DOMAIN pass.raw : pass.raw[k].mac_address = NoMac})

\* the lists that hold the same results in another order
Reorderings(results) ==
    {[k \in DOMAIN results |-> results[f[k]]] :
        f \in {g \in [DOMAIN results -> DOMAIN results] :
                 \A i, j \in DOMAIN results : g[i] = g[j] => i = j}}

\* C20: a pass over the same results in any other order leaves every asset
\* with the same status, location and ip_address and ends with the same
\* counters.
C20_OrderOfResultsDoesNotMatter ==
    (pass.n > 0 /\ quiet) =>
        \A reordered \in Reorderings(pass.raw) :
            LET st == ReconcileLoop(pass.entry, StartPass(pass.pre, reordered), 1, pass.at)
            IN  /\ \A a \in DOMAIN assets :
                    /\ st.assets[a].status = assets[a].status
                    /\ st.assets[a].location = assets[a].location
                    /\ st.assets[a].ip_address = assets[a].ip_address
                /\ Len(st.results) = pass.scanned
                /\ st.matched = pass.matched
                /\ st.missing_found = pass.missing_found

\* result k of the pass was matched to asset a: the asset was saved with the
\* address of that result
MatchedTo(k, a) ==
    \E j \in DOMAIN pass.saved :
        pass.saved[j].id = a /\ pass.saved[j].ip = pass.raw[k].ip_address

\* C22: a result is matched to an asset exactly when it carries a hardware
\* address equal, ignoring letter case, to the one stored for the asset; a
\* result without a hardware address matches nothing and changes no asset.
C22_MatchedExactlyWhenAddressesAgree ==
    (pass.n > 0 /\ quiet) =>
        \A k \in DOMAIN pass.raw :
            \A a \in DOMAIN pass.pre :
                MatchedTo(k, a) <=>
                    /\ pass.raw[k].mac_address # NoMac
                    /\ iexact(pass.raw[k].mac_address, pass.pre[a].mac_address)

\* C28: each of the three entry points, given the results and the registry
\* of the pass that ran, leaves every asset with the status, the location and
\* the ip_address that the pass left.
C28_EntryPointsAgree ==
    (pass.n > 0 /\ quiet) =>
        \A entry \in EntryPoints :
            LET st == ReconcileLoop(entry, StartPass(pass.pre, pass.raw), 1, pass.at)
            IN  \A a \in DOMAIN assets :
                    /\ st.assets[a].status = assets[a].status
                    /\ st.assets[a].location = assets[a].location
                    /\ st.assets[a].ip_address = assets[a].ip_address

\* C16: no two assets have hardware addresses that are equal ignoring letter
\* case, and no lookup of a pass finds more than one asset.
C16_HardwareAddressesAreUnique ==
    /\ \A a, b \in DOMAIN assets :
        a # b => ~iexact(assets[a].mac_address, assets[b].mac_address)
    /\ pass.raised # "MultipleObjectsReturned"

\* -------------------------------------------------- custody: specification

\* a network where the first address answers with hardware address 1
CustodyNetworks ==
    {e \in Envs : e[hosts(Subnet(<<10, 0, 0, 1>>, 30))[1]].arp = MacLower(1)
                  /\ e[hosts(Subnet(<<10, 0, 0, 1>>, 30))[2]].ping # "ok"}

InitCustody ==
    /\ InitRecon
    /\ network \in CustodyNetworks

\* One asset with a hardware address is registered, then issued, returned,
\* edited and reconciled, until the audit log holds MaxAudit entries.
WithinAudit == Len(audit) < MaxAudit

NextCustody ==
    \/ /\ WithinAudit /\ assets = <<>>
       /\ AssetCreateView(MacUpper(1), "AVAILABLE")
    \/ \E pk \in 1..MaxAssets : WithinAudit /\ AssetUpdateView(pk, Tech, "MISSING")
    \/ \E pk \in 1..MaxAssets, to \in Users :
          WithinAudit /\ issue_asset(pk, Admin, to, NoTime)
    \/ \E pk \in 1..MaxAssets, to \in Users :
          WithinAudit /\ api_create_assignment(pk, Admin, to, NoTime)
    \/ \E id \in 1..MaxAssignments : WithinAudit /\ return_asset(id, Admin)
    \/ \E id \in 1..MaxAssignments : WithinAudit /\ api_return_asset(id, Admin)
    \/ WithinAudit /\ scan_and_update_assets(Subnet(<<10, 0, 0, 1>>, 30))
    \/ WithinAudit /\ scan_network(Subnet(<<10, 0, 0, 1>>, 30))
    \/ WithinAudit /\ network_scan_view(Subnet(<<10, 0, 0, 1>>, 30))

SpecCustody == InitCustody /\ [][NextCustody]_vars

\* the last request was a return through the API that went through, of
\* assignment id
ReturnedThroughApi(id) ==
    /\ response = [op |-> "api_return_asset", code |-> 200]
    /\ audit # <<>>
    /\ audit[Len(audit)] = AuditEntry(audit[Len(audit)].user, "RETURN", "AssetAssignment", id,
                                      "Returned by API", 0)

\* C21: a step that returns an assignment through the API leaves the
\* assignment closed and its asset AVAILABLE with no holder and no date of
\* assignment, whatever the asset, its status and the assignee were.
C21_ApiReturnFreesTheAsset ==
    [][\A id \in DOMAIN assignments :
          (audit' # audit /\ ReturnedThroughApi(id)') =>
              /\ IsOpen(assignments[id])
              /\ assignments'[id].date_returned # NoTime
              /\ assets'[assignments[id].asset].status = "AVAILABLE"
              /\ assets'[assignments[id].asset].assigned_to = NoUser
              /\ assets'[assignments[id].asset].date_assigned = NoTime]_vars

\* an assignment created through the API was returned through the API
C21_Reached ==
    \E id \in DOMAIN assignments :
        /\ ReturnedThroughApi(id)
        /\ assignments[id].checkout_ip = NoIp
        /\ assignments[id].assigned_to = Tech
        /\ assignments[id].date_returned # NoTime
        /\ assets[assignments[id].asset].status = "AVAILABLE"

\* C29: a step of issue_asset on an asset whose status is not AVAILABLE is
\* answered with the redirect and leaves the assets, the assignments and the
\* audit log as they were.
C29_IssueOfUnavailableAssetChangesNothing ==
    [][\A pk \in DOMAIN assets : \A user \in Users : \A to \in Users :
          (issue_asset(pk, user, to, NoTime) /\ assets[pk].status # "AVAILABLE") =>
              /\ response' = [op |-> "issue_asset", code |-> 302]
              /\ assets' = assets
              /\ assignments' = assignments
              /\ audit' = audit]_vars

\* the issue of an asset that is ASSIGNED was turned away: it still has its
\* one open assignment, and the log ends with the entry of that assignment
C29_Reached ==
    /\ response = [op |-> "issue_asset", code |-> 302]
    /\ \E pk \in DOMAIN assets :
        /\ assets[pk].status = "ASSIGNED"
        /\ Cardinality(OpenAssignments(pk)) = 1
        /\ Len(assignments) = 1
        /\ audit[Len(audit)].action = "ISSUE"

\* C30: a step of return_asset, through the view or through the API, on an
\* assignment that is already returned is turned away and leaves the
\* assignments, the assets and the audit log as they were.
C30_SecondReturnChangesNothing ==
    [][\A id \in DOMAIN assignments : \A user \in Users :
          (/\ return_asset(id, user) \/ api_return_asset(id, user)
           /\ assignments[id].date_returned # NoTime) =>
              /\ response' \in {[op |-> "return_asset", code |-> 302],
                                [op |-> "api_return_asset", code |-> 400]}
              /\ assignments' = assignments
              /\ assets' = assets
              /\ audit' = audit]_vars

\* an assignment was returned through the view; a second return of it through
\* the API was turned away, and the entry of the first return is the last of
\* the log
C30_Reached ==
    /\ response = [op |-> "api_return_asset", code |-> 400]
    /\ Len(assignments) = 1
    /\ assignments[1].date_returned # NoTime
    /\ assets[assignments[1].asset].status = "AVAILABLE"
    /\ audit[Len(audit)].action = "RETURN"
    /\ audit[Len(audit)].description = "Returned"

\* C8: every asset has at most one open assignment.
C8_AtMostOneOpenAssignment ==
    \A a \in DOMAIN assets : Cardinality(OpenAssignments(a)) <= 1

\* C9: an asset that a pass sets to AVAILABLE has no open assignment.
C9_PassNeverFreesAnAssignedAsset ==
    (pass.n > 0 /\ quiet) =>
        \A a \in DOMAIN pass.pre :
            (pass.pre[a].status # "AVAILABLE" /\ assets[a].status = "AVAILABLE") =>
                OpenAssignments(a) = {}

\* -------------------------------------------- the overdue job: specification
\* no host answers the scans: the job is run against issued assets
SilentNetworks == {e \in Envs : \A ip \in DOMAIN e : e[ip].ping = "timeout" /\ e[ip].arp = NoMac}

InitOverdue ==
    /\ Init
    /\ network \in SilentNetworks

\* Assets are registered and issued, then the job is scheduled and run; the
\* next invocation is scheduled when the retries of the last one are over.
NextOverdue ==
    \/ /\ beats = 0
       /\ AssetCreateView(NoMac, "AVAILABLE")
    \/ /\ beats = 0
       /\ \E pk \in 1..MaxAssets, by \in Users, to \in Users, due \in DueInputs \ {1} :
             issue_asset(pk, by, to, due)
    \/ /\ queue = <<>>
       /\ beat
    \/ check_overdue_assignments
    \/ Tick

SpecOverdue == InitOverdue /\ [][NextOverdue]_vars

\* the selection of the job: every due date and returns as well, with the
\* default mail settings or a mail server that refuses every message
InitSelect ==
    /\ InitOverdue
    /\ mail \in {MailDefault, [EMAIL_HOST |-> TRUE, up |-> FALSE]}
    /\ faults = {}

NextSelect ==
    \/ /\ beats = 0
       /\ AssetCreateView(NoMac, "AVAILABLE")
    \/ /\ beats = 0
       /\ \E pk \in 1..MaxAssets, to \in Users, due \in DueInputs :
             issue_asset(pk, Admin, to, due)
    \/ /\ beats = 0
       /\ \E id \in 1..MaxAssignments : return_asset(id, Admin)
    \/ /\ queue = <<>>
       /\ beat
    \/ check_overdue_assignments
    \/ Tick

SpecSelect == InitSelect /\ [][NextSelect]_vars

\* the rows the last execution created for assignment id
RowsFor(id) ==
    {k \in (job.pre_notifications + 1)..Len(notifications) : notifications[k].link = id}

\* the audit entries the last execution wrote for assignment id
EntriesFor(id, description) ==
    {k \in (job.pre_audit + 1)..Len(audit) :
        audit[k].object_id = id /\ audit[k].description = description}

\* the calls of send_mail for assignment id in the executions of one invocation
SendsFor(invocation, id) ==
    {k \in DOMAIN outbox : outbox[k].invocation = invocation /\ outbox[k].assignment = id}

\* C4: once the only invocation so far is over and every delivery it tried was
\* refused, no email was counted as sent, the log holds exactly one entry about
\* the exhausted retries for each assignment that was mailed, and the last
\* execution returned without raising.
C4_ExhaustedRetriesAreLoggedOnce ==
    (beats = 1 /\ job.n > 0 /\ queue = <<>> /\ ~mail.up) =>
        \A id \in DOMAIN assignments :
            SendsFor(1, id) # {} =>
                /\ job.email_notifications = 0
                /\ job.raised = "none"
                /\ Cardinality({k \in DOMAIN audit :
                        /\ audit[k].object_id = id
                        /\ audit[k].description
                               = "Failed to send overdue email after retries"}) = 1

\* C5: with one assignment, the executions of one invocation call send_mail for
\* it at most 3 times, and two calls are at least the retry delay apart.
C5_AtMostThreeAttempts ==
    Len(assignments) = 1 =>
        \A r \in 1..beats :
            /\ Cardinality(SendsFor(r, 1)) <= 3
            /\ \A j, k \in SendsFor(r, 1) :
                j < k => outbox[k].at - outbox[j].at >= default_retry_delay

\* C6: when an execution found one overdue assignment, and its records are
\* intact, it created exactly two rows with the same message, an ALERT to the
\* assigning user and a WARNING to the holder, and returned overdue_count = 1.
C6_OneOverdueTwoNotifications ==
    (job.n > 0 /\ Len(job.overdue) = 1 /\ job.overdue[1] \notin faults) =>
        LET id == job.overdue[1]
            first == job.pre_notifications + 1
        IN  /\ Len(notifications) = job.pre_notifications + 2
            /\ RowsFor(id) = {first, first + 1}
            /\ notifications[first].level = "ALERT"
            /\ notifications[first].user = assignments[id].assigned_by
            /\ notifications[first + 1].level = "WARNING"
            /\ notifications[first + 1].user = assignments[id].assigned_to
            /\ notifications[first].message = notifications[first + 1].message
            /\ job.raised = "none"
            /\ job.overdue_count = 1

C6_Reached ==
    /\ job.n > 0
    /\ Len(job.overdue) = 1
    /\ job.overdue[1] \notin faults
    /\ assignments[job.overdue[1]].assigned_to = Tech
    /\ Cardinality(RowsFor(job.overdue[1])) = 2

\* C7: an execution returns normally; for each assignment whose processing
\* raised it wrote one entry about the error, and every other overdue
\* assignment of the run, before or after it, got its two rows.
C7_ErrorDoesNotStopTheRun ==
    job.n > 0 =>
        /\ job.raised = "none"
        /\ \A k \in DOMAIN job.failed :
            Cardinality(EntriesFor(job.failed[k], "Unexpected error in overdue task")) = 1
        /\ \A k \in DOMAIN job.overdue :
            /\ job.overdue[k] \in faults
                => \E j \in DOMAIN job.failed : job.failed[j] = job.overdue[k]
            /\ job.overdue[k] \notin faults
                => Cardinality(RowsFor(job.overdue[k])) = 2

C7_Reached ==
    /\ job.n > 0
    /\ Len(job.overdue) = 2
    /\ job.overdue[1] \in faults
    /\ job.failed = <<job.overdue[1]>>
    /\ Cardinality(RowsFor(job.overdue[2])) = 2

C23_EveryRunAddsTwoRowsEach ==
    [][(job'.n = job.n + 1 /\ \A k \in DOMAIN job'.overdue : job'.overdue[k] \notin faults) =>
          /\ Len(notifications') = Len(notifications) + 2 * Len(job'.overdue)
          /\ SubSeq(notifications', 1, Len(notifications)) = notifications
          /\ \A k \in DOMAIN job'.overdue :
                Cardinality({j \in (Len(notifications) + 1)..Len(notifications') :
                                notifications'[j].link = job'.overdue[k]}) = 2]_vars

\* a later execution found the two assignments still overdue, with the rows of
\* the executions before it in the table, and added four rows
C23_Reached ==
    /\ job.n >= 2
    /\ Len(job.overdue) = 2
    /\ \A k \in DOMAIN job.overdue : job.overdue[k] \notin faults
    /\ job.pre_notifications >= 4
    /\ \A k \in DOMAIN job.overdue :
        \E j \in 1..job.pre_notifications : notifications[j].link = job.overdue[k]
    /\ Len(notifications) = job.pre_notifications + 4

\* C26: while only one invocation has been scheduled, whatever deliveries
\* failed and whatever retries ran, an assignment that was notified has
\* exactly two rows in the Notification table.
C26_RetriesDoNotNotifyAgain ==
    beats = 1 =>
        \A id \in DOMAIN assignments :
            LET rows == {k \in DOMAIN notifications : notifications[k].link = id}
            IN  rows # {} => Cardinality(rows) = 2

\* C17: the assignments an execution selects are those for which is_overdue
\* holds at the time of the run, each once; every row it creates is for one
\* of them, so none is for an assignment without a due date or returned.
C17_SelectsWhatIsOverdue ==
    job.n > 0 =>
        /\ \A id \in DOMAIN assignments :
            (\E k \in DOMAIN job.overdue : job.overdue[k] = id)
                <=> is_overdue(assignments[id], job.at)
        /\ Len(job.overdue) = Cardinality({job.overdue[k] : k \in DOMAIN job.overdue})
        /\ \A k \in (job.pre_notifications + 1)..Len(notifications) :
            /\ notifications[k].link \in DOMAIN assignments
            /\ assignments[notifications[k].link].date_due # NoTime
            /\ assignments[notifications[k].link].date_due < job.at
            /\ assignments[notifications[k].link].date_returned = NoTime

\* a run that selected one assignment and left out one due at that moment
C17_Reached ==
    /\ job.n > 0
    /\ Len(job.overdue) = 1
    /\ RowsFor(job.overdue[1]) # {}
    /\ \E id \in DOMAIN assignments :
        /\ assignments[id].date_due = job.at
        /\ assignments[id].date_returned = NoTime
        /\ RowsFor(id) = {}

\* ------------------------------------ the overdue job step by step: specification
\* a mail server is configured; one assignment may have a broken record
InitRun ==
    /\ InitOverdue
    /\ mail.EMAIL_HOST
    /\ faults \in {{}, {1}}

\* Assets are registered and issued before the job is scheduled, once;
\* assignments are returned and time passes while an execution is in progress.
NextRun ==
    \/ /\ beats = 0
       /\ AssetCreateView(NoMac, "AVAILABLE")
    \/ /\ beats = 0
       /\ \E pk \in 1..MaxAssets, to \in Users, due \in DueInputs :
             issue_asset(pk, Admin, to, due)
    \/ /\ run.active
       /\ \E id \in 1..MaxAssignments : return_asset(id, Admin)
    \/ /\ beats = 0
       /\ beat
    \/ check_overdue_assignments_query
    \/ check_overdue_assignments_body
    \/ check_overdue_assignments_return
    \/ /\ now < 1 + MaxTicks * default_retry_delay
       /\ Tick

SpecRun == InitRun /\ [][NextRun]_vars

\* C18: when an execution has returned, overdue_count is the number of
\* assignments it iterated over, notifications_created the number of rows it
\* created and email_notifications the number of assignments whose mail was
\* delivered, whatever was returned or fell due in the meantime.
C18_CountsAreWhatTheRunDid ==
    (job.n > 0 /\ ~run.active) =>
        /\ job.overdue_count = Len(job.overdue)
        /\ job.notifications_created = Len(notifications) - job.pre_notifications
        /\ job.email_notifications =
             Cardinality({o \in (job.pre_outbox + 1)..Len(outbox) : outbox[o].ok})
        /\ \A o \in (job.pre_outbox + 1)..Len(outbox) :
             \A q \in (job.pre_outbox + 1)..Len(outbox) :
                outbox[o].assignment = outbox[q].assignment => o = q

\* the first execution has returned; an assignment was returned between two
\* turns of its loop, and its mail was delivered
C18_Reached ==
    /\ job.n = 1
    /\ ~run.active
    /\ job.overdue_count = 2
    /\ job.email_notifications = 2
    /\ job.notifications_created > 2
    /\ \E k \in (job.pre_audit + 1)..Len(audit) :
        /\ audit[k].action = "RETURN"
        /\ \E m \in (k + 1)..Len(audit) : audit[m].action = "EXPORT"

\* ------------------------------------------------ the audit log: specification
\* a mail server that refuses every message, no broken record
InitAudit ==
    /\ InitOverdue
    /\ mail = [EMAIL_HOST |-> TRUE, up |-> FALSE]
    /\ faults = {}

\* The asset is registered, issued and returned through the views and the
\* API and reconciled; then the overdue job is scheduled and run.
NextAudit ==
    \/ /\ beats = 0 /\ assets = <<>>
       /\ AssetCreateView(MacUpper(1), "AVAILABLE")
    \/ /\ beats = 0 /\ WithinAudit
       /\ \E pk \in 1..MaxAssets, to \in Users : issue_asset(pk, Admin, to, 0)
    \/ /\ beats = 0 /\ WithinAudit
       /\ \E pk \in 1..MaxAssets, to \in Users : api_create_assignment(pk, Admin, to, 0)
    \/ /\ WithinAudit
       /\ \E id \in 1..MaxAssignments : return_asset(id, Admin)
    \/ /\ WithinAudit
       /\ \E id \in 1..MaxAssignments : api_return_asset(id, Tech)
    \/ /\ beats = 0
       /\ network_scan_view(Subnet(<<10, 0, 0, 1>>, 30))
    \/ /\ queue = <<>>
       /\ beat
    \/ check_overdue_assignments
    \/ Tick

SpecAudit == InitAudit /\ [][NextAudit]_vars

\* C24: every step leaves the entries of the audit log as they were and in
\* place; the log only grows.
C24_AuditLogOnlyGrows ==
    [][/\ Len(audit') >= Len(audit)
       /\ SubSeq(audit', 1, Len(audit)) = audit]_vars

\* the log holds entries of a scan, of an issue, of a return and of the
\* overdue job
C24_Reached ==
    \E s, i, r, e \in DOMAIN audit :
        /\ audit[s].action = "SCAN"
        /\ audit[i].action = "ISSUE"
        /\ audit[r].action = "RETURN"
        /\ audit[e].action = "EXPORT"
        /\ i < r
        /\ i < e

\* ------------------------------------- a pass among requests: specification
\* One asset with a hardware address is registered; it is issued and returned
\* while passes read and save it.
NextRace ==
    \/ /\ assets = <<>>
       /\ AssetCreateView(MacUpper(1), "AVAILABLE")
    \/ \E pk \in 1..MaxAssets, to \in Users :
          WithinAudit /\ issue_asset(pk, Admin, to, NoTime)
    \/ \E id \in 1..MaxAssignments : WithinAudit /\ return_asset(id, Admin)
    \/ scan_and_update_assets_scan(Subnet(<<10, 0, 0, 1>>, 30))
    \/ scan_and_update_assets_get
    \/ scan_and_update_assets_save
    \/ scan_and_update_assets_return

SpecRace == InitCustody /\ [][NextRace]_vars

\* C25: the save of an asset that the pass read as AVAILABLE or ASSIGNED
\* leaves the status, the holder and the date of assignment of the row as
\* they are at that moment, whatever was issued or returned since the read.
C25_SaveKeepsCustodyFields ==
    [][(held.fetched /\ ~held'.fetched /\ held.asset.status \in {"AVAILABLE", "ASSIGNED"}) =>
          /\ assets'[held.id].status = assets[held.id].status
          /\ assets'[held.id].assigned_to = assets[held.id].assigned_to
          /\ assets'[held.id].date_assigned = assets[held.id].date_assigned]_vars

\* ---------------------------------------------------- the scanner: specification
\* two addresses, each with every prefix length and without one, and the
\* malformed strings
ScanInputs ==
    {Subnet(o, p) : o \in {<<10, 0, 0, 1>>, <<10, 0, 1, 200>>},
                    p \in {NoPrefix} \cup 0..AddressBits}
    \cup SubnetInputs

\* one scan of one subnet on one network
NextScan == probe.n = 0 /\ \E subnet \in ScanInputs : scanner_main(subnet)

\* every network, the mail settings of a fresh checkout
InitScan ==
    /\ Init
    /\ mail = MailDefault
    /\ faults = {}

SpecScan == InitScan /\ [][NextScan]_vars

\* the host bits of the block that was scanned
ProbeBits == AddressBits - PrefixLen(probe.subnet)

Responding == SelectSeq(probe.pinged, LAMBDA ip : Answer(network, ip).ping = "ok")

\* C14: a scan of a valid subnet returns, in the order of the enumeration, one
\* result with is_alive true for each probed address whose ping succeeded and
\* none for an address whose ping timed out, failed or raised; it does not
\* fail; the result of a host whose hardware address was not found, or whose
\* lookup raised, has an absent hardware address.
C14_OneResultPerRespondingHost ==
    (probe.n > 0 /\ ValidSubnet(probe.subnet)) =>
        /\ probe.raised = "none"
        /\ probe.printed = ""
        /\ Len(probe.results) = Len(Responding)
        /\ \A k \in DOMAIN probe.results :
            /\ probe.results[k].ip_address = Responding[k]
            /\ probe.results[k].is_alive
            /\ Answer(network, Responding[k]).arp \in {NoMac, ArpError}
                => probe.results[k].mac_address = NoMac
            /\ Answer(network, Responding[k]).arp \notin {NoMac, ArpError}
                => probe.results[k].mac_address.hw = Answer(network, Responding[k]).arp.hw

C14_Reached ==
    /\ probe.n > 0
    /\ Len(probe.pinged) > 2
    /\ Answer(network, probe.pinged[1]).ping = "exception"
    /\ Answer(network, probe.pinged[2]).ping = "ok"
    /\ Answer(network, probe.pinged[2]).arp = ArpError
    /\ Len(probe.results) = 1
    /\ probe.results[1].ip_address = probe.pinged[2]
    /\ probe.results[1].mac_address = NoMac

\* --------------------------------------- the scan step by step: specification
\* blocks of two and of six hosts, and a malformed string
SweepInputs ==
    {Subnet(<<10, 0, 0, 1>>, 30), Subnet(<<10, 0, 0, 1>>, 29), Subnet(<<>>, NoPrefix)}

NextSweep ==
    \/ \E subnet \in SweepInputs : scan_hosts(subnet)
    \/ scan_scan_host
    \/ scan_return

\* the loop is sequential and every subprocess has a timeout: a step that
\* can be taken is taken
SpecSweep == InitScan /\ [][NextSweep]_vars /\ WF_vars(NextSweep)

\* the calls of _ping_host made so far, in order
Pings == SelectSeq(sweep.calls, LAMBDA call : call.op = "_ping_host")

\* so far every host was pinged at most once, in the order of the
\* enumeration, and every lookup of a hardware address directly follows a
\* ping of the same host that succeeded
ProbedOnceAndResolvedWhenAlive ==
    /\ Len(Pings) = sweep.i - 1 \/ (sweep.i = 0 /\ Pings = <<>>)
    /\ \A k \in DOMAIN Pings : Pings[k].ip = sweep.hosts[k]
    /\ \A j \in DOMAIN sweep.calls :
        sweep.calls[j].op = "_get_mac_address" =>
            /\ j > 1
            /\ sweep.calls[j - 1] = [op |-> "_ping_host", ip |-> sweep.calls[j].ip]
            /\ Answer(network, sweep.calls[j].ip).ping = "ok"
    /\ (sweep.n = 1 /\ ValidSubnet(sweep.subnet)) => Len(Pings) = Len(hosts(sweep.subnet))

\* C27: in a scan every enumerated host is pinged exactly once; the hardware
\* address of a host is looked up only after its ping succeeded, never for a
\* host that did not answer; and a scan that has started returns, with every
\* host probed.
C27_EachHostProbedOnceThenScanReturns ==
    /\ []ProbedOnceAndResolvedWhenAlive
    /\ (sweep.active ~> (sweep.n = 1 /\ ~sweep.active))

\* a scan of six hosts has returned; the first host did not answer and was not
\* looked up, the second answered and was
C27_Reached ==
    /\ sweep.n = 1
    /\ Len(sweep.hosts) = 6
    /\ Len(Pings) = 6
    /\ Answer(network, sweep.hosts[1]).ping # "ok"
    /\ Answer(network, sweep.hosts[2]).ping = "ok"
    /\ sweep.calls[1] = [op |-> "_ping_host", ip |-> sweep.hosts[1]]
    /\ sweep.calls[2] = [op |-> "_ping_host", ip |-> sweep.hosts[2]]
    /\ sweep.calls[3] = [op |-> "_get_mac_address", ip |-> sweep.hosts[2]]

====
